---- MODULE Spec2Model ----
(***************************************************************************)
(* A model of gplaycli/gplaycli.py (class GPlaycli): the update            *)
(* reconciler analyse_local_apks, the batch download download_packages     *)
(* with write_logfiles and print_failed, and the token cache               *)
(* (get_cached_token, write_cached_token, retrieve_token) with the session *)
(* bootstrap connect_to_googleplay_api.                                    *)
(*                                                                         *)
(* Python strings are sequences of one-character strings, so that          *)
(* str.split, readline, "%s %s" % (..) and int(..) are computed as Python  *)
(* computes them.  None is the empty sequence and a present value x is     *)
(* the one-element sequence <<x>>.                                         *)
(***************************************************************************)
EXTENDS Integers, Sequences, FiniteSets, TLC

VARIABLES
    \* analyse_local_apks
    list_of_apks, details, list_apks_to_update, an_pc,
    \* download_packages
    pkg_todownload, position, success_downloads, failed_downloads,
    unavail_downloads, outcomes, folder_exists, logging_enable,
    addfiles_enable, success_logfile, failed_logfile, unavail_logfile,
    downloaded_packages, emitted, dl_pc,
    \* token cache and connect_to_googleplay_api
    tokencachefile, token_enable, token_str, gsf_id, token_passed, token,
    gsfid, force_new, caller, pre_file, pre_requests, ret, requests, written,
    login_results, refreshes, login_creds, refreshed, error, exit_code,
    r_text, connect_ret, pc,
    \* prepare_download_updates
    yes, return_value, inputs_read, printed, update_exit, gt_pc,
    \* two invocations of retrieve_token on one cache file
    inv_pc, inv_text, inv_pair, last_writer

an_vars == <<list_of_apks, details, list_apks_to_update, an_pc>>

dl_run == <<pkg_todownload, position, success_downloads, failed_downloads,
            unavail_downloads, outcomes, downloaded_packages, emitted>>

dl_logs == <<success_logfile, failed_logfile, unavail_logfile>>

dl_conf == <<logging_enable, addfiles_enable>>

dl_vars == <<dl_run, dl_logs, dl_conf, folder_exists, dl_pc>>

tk_args == <<token_enable, token_str, gsf_id>>

tk_self == <<token_passed, token, gsfid>>

tk_call == <<force_new, caller, pre_file, pre_requests, ret>>

tk_login == <<login_results, refreshes, login_creds, refreshed>>

tk_vars == <<tokencachefile, tk_args, tk_self, tk_call, requests, written,
             tk_login, error, exit_code, r_text, connect_ret, pc>>

gt_vars == <<yes, return_value, inputs_read, printed, update_exit, gt_pc>>

\* the token variables of one invocation, without the cache file
tk_rest == <<tk_args, tk_self, tk_call, requests, written, tk_login, error,
             exit_code, r_text, connect_ret, pc>>

rc_vars == <<inv_pc, inv_text, inv_pair, last_writer>>

vars == <<an_vars, dl_vars, tk_vars, gt_vars, rc_vars>>

None == <<>>
Some(x) == <<x>>

(***************************************************************************)
(* Python string functions                                                 *)
(***************************************************************************)
Digits == {"0", "1", "2"}

DigitValue(c) == CASE c = "0" -> 0 [] c = "1" -> 1 [] c = "2" -> 2

\* int(s) accepts an optional sign followed by one or more decimal digits
IsPyInt(s) ==
    LET body == IF Len(s) > 0 /\ s[1] = "-" THEN Tail(s) ELSE s
    IN  Len(body) > 0 /\ \A i \in 1..Len(body) : body[i] \in Digits

RECURSIVE DecimalValue(_)
DecimalValue(s) ==
    IF s = <<>> THEN 0
    ELSE 10 * DecimalValue(SubSeq(s, 1, Len(s) - 1)) + DigitValue(s[Len(s)])

PyInt(s) == IF s[1] = "-" THEN 0 - DecimalValue(Tail(s)) ELSE DecimalValue(s)

\* the characters of the strings below: a hexadecimal digit, a letter that
\* is none, and the two whitespace characters
Chars == {"a", "z", " ", "\n"}

Whitespace == {" ", "\n"}

HexDigits == {"a"}

MaxStrLen == 3

Strings == UNION {[1..n -> Chars] : n \in 0..MaxStrLen}

FirstIndex(s, c) ==
    CHOOSE i \in 1..Len(s) : s[i] = c /\ \A j \in 1..(i - 1) : s[j] # c

Contains(s, c) == \E i \in 1..Len(s) : s[i] = c

\* file.readline(): up to and including the first newline
ReadLine(text) ==
    IF Contains(text, "\n") THEN SubSeq(text, 1, FirstIndex(text, "\n")) ELSE text

\* str.split(" "): cut at every single space, empty pieces kept
RECURSIVE SplitOnSpace(_)
SplitOnSpace(s) ==
    IF ~Contains(s, " ") THEN <<s>>
    ELSE LET i == FirstIndex(s, " ")
         IN  <<SubSeq(s, 1, i - 1)>> \o SplitOnSpace(SubSeq(s, i + 1, Len(s)))

RECURSIVE LStrip(_)
LStrip(s) == IF s # <<>> /\ s[1] \in Whitespace THEN LStrip(Tail(s)) ELSE s

RECURSIVE RStrip(_)
RStrip(s) ==
    IF s # <<>> /\ s[Len(s)] \in Whitespace
    THEN RStrip(SubSeq(s, 1, Len(s) - 1)) ELSE s

Strip(s) == RStrip(LStrip(s))

\* the longest prefix without whitespace
RECURSIVE Word(_)
Word(s) ==
    IF s = <<>> \/ s[1] \in Whitespace THEN <<>> ELSE <<s[1]>> \o Word(Tail(s))

\* str.split(): cut at runs of whitespace, no empty pieces
RECURSIVE SplitWhitespace(_)
SplitWhitespace(s) ==
    LET t == LStrip(s)
    IN  IF t = <<>> THEN <<>>
        ELSE <<Word(t)>> \o SplitWhitespace(SubSeq(t, Len(Word(t)) + 1, Len(t)))

\* int(s, 16) returns (surrounding whitespace is ignored) rather than raising
\* ValueError
IsHexInt(s) ==
    LET t == Strip(s)
    IN  t # <<>> /\ \A i \in 1..Len(t) : t[i] \in HexDigits

(***************************************************************************)
(* analyse_local_apks                                                      *)
(***************************************************************************)
MaxApks == 2

Packages == {"com.a", "com.b"}

\* version codes read from the archives: empty, zero, positive, negative,
\* with a leading zero, and not a number
VersionCodes ==
    {<<>>, <<"0">>, <<"1">>, <<"2">>, <<"-", "1">>, <<"0", "1">>, <<"x">>}

\* versionCode of a bulkDetails entry; 0 when the catalog has no such package
StoreVersionCodes == {0, 1, 2}

\* the i-th file of the folder holds an APK: filename i, its package and its
\* version code
ApkLists ==
    UNION {[1..n -> [packagename : Packages, version_code : VersionCodes]]
           : n \in 0..MaxApks}

\* NeedsUpdate with <= for <: an equal store version would count as an update
NeedsUpdate_LessOrEqual(apk_version_code, store_version_code) ==
    /\ apk_version_code # <<>>
    /\ PyInt(apk_version_code) <= store_version_code
    /\ store_version_code # 0

\* NeedsUpdate without the test on store version 0
NeedsUpdate_NoZeroCheck(apk_version_code, store_version_code) ==
    /\ apk_version_code # <<>>
    /\ PyInt(apk_version_code) < store_version_code

\* line 257: the comparison of one zipped entry, for a version code int() takes
NeedsUpdate(apk_version_code, store_version_code) ==
    /\ apk_version_code # <<>>
    /\ PyInt(apk_version_code) < store_version_code
    /\ store_version_code # 0

\* line 257: int(apk_version_code) raises ValueError, which nothing catches
CompareRaises(apk_version_code) ==
    apk_version_code # <<>> /\ ~IsPyInt(apk_version_code)

\* UpdateList that puts each new entry in front of the list
RECURSIVE UpdateList_Reversed(_, _, _)
UpdateList_Reversed(apks, dets, i) ==
    IF i > Len(apks) \/ i > Len(dets) THEN <<>>
    ELSE UpdateList_Reversed(apks, dets, i + 1) \o
         (IF NeedsUpdate(apks[i].version_code, dets[i])
          THEN << <<apks[i].packagename, i, PyInt(apks[i].version_code), dets[i]>> >>
          ELSE <<>>)

RECURSIVE UpdateList(_, _, _)
UpdateList(apks, dets, i) ==
    IF i > Len(apks) \/ i > Len(dets) THEN <<>>
    ELSE (IF NeedsUpdate(apks[i].version_code, dets[i])
          THEN << <<apks[i].packagename, i, PyInt(apks[i].version_code), dets[i]>> >>
          ELSE <<>>) \o UpdateList(apks, dets, i + 1)

AnalyseLocalApks ==
    /\ an_pc = "start"
    /\ IF \E i \in 1..Len(list_of_apks) : CompareRaises(list_of_apks[i].version_code)
       THEN /\ an_pc' = "raised"
            /\ list_apks_to_update' = <<>>
       ELSE /\ an_pc' = "returned"
            /\ list_apks_to_update' = UpdateList(list_of_apks, details, 1)
    /\ UNCHANGED <<list_of_apks, details>>
    /\ UNCHANGED <<dl_vars, tk_vars, gt_vars, rc_vars>>

InitAnalyse ==
    /\ list_of_apks \in ApkLists
    /\ details \in [1..Len(list_of_apks) -> StoreVersionCodes]
    /\ list_apks_to_update = <<>>
    /\ an_pc = "start"

IdleAnalyse ==
    /\ list_of_apks = <<>>
    /\ details = <<>>
    /\ list_apks_to_update = <<>>
    /\ an_pc = "idle"

NextAnalyse == AnalyseLocalApks

(***************************************************************************)
(* download_packages, write_logfiles, print_failed                         *)
(***************************************************************************)
MaxPkgs == 3

AppIds == {"A", "B"}

\* main passes a list of strings (a string is modelled as <<id>>),
\* prepare_download_updates a list of [packagename, filename]
StrRequests == UNION {[1..n -> {<<p>> : p \in AppIds}] : n \in 0..MaxPkgs}

PairRequests ==
    UNION {[1..n -> {<<p, Some("local.apk")>> : p \in AppIds}] : n \in 0..MaxPkgs}

Requests == StrRequests \cup PairRequests

\* lines 294-296: a bare identifier is paired with no filename
Normalize(pkg) == IF Len(pkg) = 1 THEN <<pkg[1], None>> ELSE pkg

\* lines 344-347: set([item[0] for item, error in ...])
Names(downloads) == {downloads[i][1][1] : i \in 1..Len(downloads)}

ToSet(s) == {s[i] : i \in 1..Len(s)}

\* lines 421-424: a log file is opened for writing only for a non-empty result
WriteLogfile(result, logfile) == IF result # {} THEN result ELSE logfile

\* print_failed that emits nothing
PrintFailed_Silent(failed) == <<>>

\* lines 355-368: what print_failed emits for the list it is given
PrintFailed(failed) ==
    IF failed = <<>> THEN <<>> ELSE << <<"report", failed>> >>

\* failed_items that also takes the unavailable downloads
failed_items_WithUnavailable == Names(failed_downloads \o unavail_downloads)

\* lines 344-347
success_items == ToSet(success_downloads)
failed_items == Names(failed_downloads)
unavail_items == Names(unavail_downloads)
to_download_items == {pkg_todownload[i][1] : i \in 1..Len(pkg_todownload)}

\* lines 288-301: download_packages(reqs) up to its loop
BeginDownload(reqs) ==
    /\ pkg_todownload' = [i \in 1..Len(reqs) |-> Normalize(reqs[i])]
    /\ position' = 1
    /\ success_downloads' = <<>>
    /\ failed_downloads' = <<>>
    /\ unavail_downloads' = <<>>
    /\ outcomes' = <<>>
    /\ downloaded_packages' = {}
    /\ emitted' = <<>>
    /\ dl_pc' = "loop"
    /\ UNCHANGED <<dl_logs, dl_conf, folder_exists>>

\* lines 498-501: main calls download_packages, in this or a later run
StartDownload ==
    /\ dl_pc \in {"start", "returned", "raised"}
    /\ \E reqs \in Requests : BeginDownload(reqs)
    /\ UNCHANGED <<an_vars, tk_vars, gt_vars, rc_vars>>

\* lines 302-342: one iteration of the loop.  mkdir: os.mkdir succeeds;
\* dl: how api.download ends; wr: whether a write fails, and which
DownloadItem ==
    /\ dl_pc = "loop"
    /\ position <= Len(pkg_todownload)
    /\ \E mkdir \in BOOLEAN, dl \in {"ok", "IndexError", "Exception"},
          wr \in {"ok", "apk", "obb"} :
         LET item == pkg_todownload[position]
             packagename == item[1]
         IN  /\ folder_exists => mkdir
             /\ dl # "ok" => wr = "ok"
             /\ wr = "obb" => addfiles_enable
             /\ IF ~mkdir
                THEN \* line 310 raises OSError outside any try
                     /\ dl_pc' = "raised"
                     /\ UNCHANGED <<dl_run, folder_exists>>
                ELSE /\ folder_exists' = TRUE
                     /\ success_downloads' =
                            IF dl = "ok" THEN Append(success_downloads, packagename)
                            ELSE success_downloads
                     /\ unavail_downloads' =
                            IF dl = "IndexError"
                            THEN Append(unavail_downloads, <<item, dl>>)
                            ELSE unavail_downloads
                     /\ failed_downloads' =
                            IF dl = "Exception"
                            THEN Append(failed_downloads, <<item, dl>>)
                            ELSE IF wr # "ok"
                                 THEN Append(failed_downloads, <<item, "IOError">>)
                                 ELSE failed_downloads
                     /\ emitted' =
                            IF dl # "ok" \/ wr # "ok"
                            THEN Append(emitted, <<"error", position>>)
                            ELSE emitted
                     /\ outcomes' =
                            Append(outcomes, IF dl = "ok" THEN <<dl, wr>> ELSE <<dl>>)
                     /\ position' = position + 1
                     /\ dl_pc' = "loop"
                     /\ UNCHANGED <<pkg_todownload, downloaded_packages>>
    /\ UNCHANGED <<dl_logs, dl_conf>>
    /\ UNCHANGED <<an_vars, tk_vars, gt_vars, rc_vars>>

\* lines 344-353
FinishDownload ==
    /\ dl_pc = "loop"
    /\ position > Len(pkg_todownload)
    /\ success_logfile' =
           IF logging_enable THEN WriteLogfile(success_items, success_logfile)
           ELSE success_logfile
    /\ failed_logfile' =
           IF logging_enable THEN WriteLogfile(failed_items, failed_logfile)
           ELSE failed_logfile
    /\ unavail_logfile' =
           IF logging_enable THEN WriteLogfile(unavail_items, unavail_logfile)
           ELSE unavail_logfile
    /\ emitted' = emitted \o PrintFailed(failed_downloads \o unavail_downloads)
    /\ downloaded_packages' = to_download_items \ failed_items
    /\ dl_pc' = "returned"
    /\ UNCHANGED <<pkg_todownload, position, success_downloads, failed_downloads,
                   unavail_downloads, outcomes, dl_conf, folder_exists>>
    /\ UNCHANGED <<an_vars, tk_vars, gt_vars, rc_vars>>

InitDownload ==
    /\ pkg_todownload = <<>>
    /\ position = 1
    /\ success_downloads = <<>>
    /\ failed_downloads = <<>>
    /\ unavail_downloads = <<>>
    /\ outcomes = <<>>
    /\ downloaded_packages = {}
    /\ emitted = <<>>
    /\ folder_exists \in BOOLEAN
    /\ logging_enable \in BOOLEAN
    /\ addfiles_enable \in BOOLEAN
    /\ success_logfile = {}
    /\ failed_logfile = {}
    /\ unavail_logfile = {}
    /\ dl_pc = "start"

IdleDownload ==
    /\ pkg_todownload = <<>>
    /\ position = 1
    /\ success_downloads = <<>>
    /\ failed_downloads = <<>>
    /\ unavail_downloads = <<>>
    /\ outcomes = <<>>
    /\ downloaded_packages = {}
    /\ emitted = <<>>
    /\ folder_exists = TRUE
    /\ logging_enable = FALSE
    /\ addfiles_enable = FALSE
    /\ success_logfile = {}
    /\ failed_logfile = {}
    /\ unavail_logfile = {}
    /\ dl_pc = "idle"

NextDownload == StartDownload \/ DownloadItem \/ FinishDownload

(***************************************************************************)
(* prepare_analyse_apks, prepare_download_updates                          *)
(***************************************************************************)
ERRORS_OK == 0

\* what input('y/n ?') may return
InputLines ==
    {<<"y">>, <<"n">>, <<"Y">>, <<"y", "e", "s">>, <<"y", " ">>, <<>>}

\* a line is read, or input raises EOFError (None)
Reads == {None} \cup {Some(l) : l \in InputLines}

\* NothingToUpdate that never holds
NothingToUpdate_Never(list) == FALSE

\* line 265: the else branch of `if list_apks_to_update:`
NothingToUpdate(list) == list = <<>>

\* Confirmed that takes every answer starting with y or Y
Confirmed_StartsWithY(y, value) ==
    y \/ (value # None /\ value[1] # <<>> /\ value[1][1] \in {"y", "Y"})

\* line 279: self.yes or return_value == 'y'
Confirmed(y, value) == y \/ value = Some(<<"y">>)

\* lines 269-273: the message, one line per update
UpdateMessage(list) ==
    <<"The following applications will be updated :",
      [k \in 1..Len(list) |-> <<list[k][2], list[k][3], list[k][4]>>]>>

\* lines 270-272: pkg_todownload.append([packagename, filename])
ToDownload(list) == [k \in 1..Len(list) |-> <<list[k][1], Some(list[k][2])>>]

\* lines 235-236 and 264-286: prepare_download_updates on the list returned
\* by analyse_local_apks, up to the loop of download_packages
PrepareDownloadUpdates ==
    /\ gt_pc = "start"
    /\ an_pc = "returned"
    /\ IF NothingToUpdate(list_apks_to_update)
       THEN /\ printed' = <<"Everything is up to date !">>
            /\ update_exit' = Some(ERRORS_OK)
            /\ gt_pc' = "exited"
            /\ UNCHANGED <<return_value, inputs_read, dl_vars>>
       ELSE \E rd \in Reads :
            /\ yes => rd = None
            /\ printed' = IF yes THEN <<UpdateMessage(list_apks_to_update)>>
                          ELSE <<UpdateMessage(list_apks_to_update), "Do you agree?">>
            /\ inputs_read' = IF yes THEN inputs_read ELSE inputs_read + 1
            /\ return_value' = IF yes THEN return_value ELSE rd
            /\ IF ~yes /\ rd = None
               THEN \* line 277 raises EOFError
                    /\ gt_pc' = "raised"
                    /\ UNCHANGED dl_vars
               ELSE IF Confirmed(yes, return_value')
               THEN /\ BeginDownload(ToDownload(list_apks_to_update))
                    /\ gt_pc' = "downloading"
               ELSE /\ gt_pc' = "returned"
                    /\ UNCHANGED dl_vars
            /\ UNCHANGED update_exit
    /\ UNCHANGED <<yes, an_vars, tk_vars, rc_vars>>

\* lines 281-283: download_packages has returned.  The text printed is
\* ' '.join(downloaded_packages) without its last character
FinishUpdate ==
    /\ gt_pc = "downloading"
    /\ dl_pc \in {"returned", "raised"}
    /\ IF dl_pc = "returned"
       THEN /\ printed' = Append(printed, <<"Updated: ", downloaded_packages>>)
            /\ gt_pc' = "returned"
       ELSE /\ gt_pc' = "raised"
            /\ UNCHANGED printed
    /\ UNCHANGED <<yes, return_value, inputs_read, update_exit>>
    /\ UNCHANGED <<an_vars, dl_vars, tk_vars, rc_vars>>

\* -u FOLDER with -y or without
InitUpdate ==
    /\ yes \in BOOLEAN
    /\ return_value = None
    /\ inputs_read = 0
    /\ printed = <<>>
    /\ update_exit = None
    /\ gt_pc = "start"

IdleUpdate ==
    /\ yes = FALSE
    /\ return_value = None
    /\ inputs_read = 0
    /\ printed = <<>>
    /\ update_exit = None
    /\ gt_pc = "idle"

\* download_packages not yet called, in the folder that was just listed,
\* without log files and additional files
DownloadNotCalled ==
    /\ pkg_todownload = <<>>
    /\ position = 1
    /\ success_downloads = <<>>
    /\ failed_downloads = <<>>
    /\ unavail_downloads = <<>>
    /\ outcomes = <<>>
    /\ downloaded_packages = {}
    /\ emitted = <<>>
    /\ folder_exists = TRUE
    /\ logging_enable = FALSE
    /\ addfiles_enable = FALSE
    /\ success_logfile = {}
    /\ failed_logfile = {}
    /\ unavail_logfile = {}
    /\ dl_pc = "idle"

NextUpdate ==
    \/ AnalyseLocalApks
    \/ PrepareDownloadUpdates
    \/ DownloadItem
    \/ FinishDownload
    \/ FinishUpdate

(***************************************************************************)
(* Token cache: get_cached_token, write_cached_token, retrieve_token       *)
(***************************************************************************)
TOKEN_DISPENSER_AUTH_ERROR == 5
TOKEN_DISPENSER_SERVER_ERROR == 6

AuthErrorBody == <<"A", "u", "t", "h", " ", "e", "r", "r", "o", "r">>

ServerErrorBody == <<"S", "e", "r", "v", "e", "r", " ", "e", "r", "r", "o", "r">>

\* what the token dispenser may answer
Bodies == Strings \cup {AuthErrorBody, ServerErrorBody}

NoFile == [exists |-> FALSE, text |-> <<>>]

File(text) == [exists |-> TRUE, text |-> text]

Files == {NoFile} \cup {File(s) : s \in Strings}

\* lines 140-141: open, readline, split and the unpacking into two names
ReadCacheFile(file) ==
    IF ~file.exists THEN [exc |-> "IOError", val |-> None]
    ELSE LET parts == SplitWhitespace(ReadLine(file.text))
         IN  IF Len(parts) # 2 THEN [exc |-> "ValueError", val |-> None]
             ELSE [exc |-> "none", val |-> Some(<<parts[1], parts[2]>>)]

\* CachedTokenCaught without ValueError: a corrupted file would raise
CachedTokenCaught_OnlyIOError == {"IOError"}

\* line 145: the exceptions get_cached_token catches
CachedTokenCaught == {"IOError", "ValueError"}

\* lines 138-149: the pair read, None for a miss; exc when it raises
get_cached_token(file) ==
    LET r == ReadCacheFile(file)
    IN  IF r.exc = "none"
        THEN [exc |-> "none",
              val |-> IF r.val[1][1] = <<>> THEN None ELSE r.val]
        ELSE IF r.exc \in CachedTokenCaught
             THEN [exc |-> "none", val |-> None]
             ELSE [exc |-> r.exc, val |-> None]

\* FormatPair without the separating space
FormatPair_NoSeparator(tok, gsf) == tok \o gsf

\* line 158: "%s %s" % (token, gsfid)
FormatPair(tok, gsf) == tok \o <<" ">> \o gsf

\* UseCached without the test of force_new
UseCached_IgnoreForce(cached, force) == cached # None

\* line 166: the cached pair is returned
UseCached(cached, force) == cached # None /\ ~force

\* the call of retrieve_token(force_new=force) from `from`
CallRetrieve(force, from) ==
    /\ force_new' = force
    /\ caller' = from
    /\ pre_file' = tokencachefile
    /\ pre_requests' = requests
    /\ ret' = None
    /\ pc' = "get_cached"

\* TokenArgsAbsent that holds as soon as one of the two is missing
TokenArgsAbsent_Either(ts, g) == ts = None \/ g = None

\* line 124: (args.token_str is None) and (args.gsf_id is None)
TokenArgsAbsent(ts, g) == ts = None /\ g = None

\* line 126: (args.token_str is not None) and (args.gsf_id is not None)
TokenArgsPassed(ts, g) == ts # None /\ g # None

\* lines 114-131 of __init__
Construct ==
    /\ pc = "init"
    /\ IF ~token_enable
       THEN /\ pc' = "connect"
            /\ UNCHANGED <<tk_self, tk_call, error>>
       ELSE IF TokenArgsAbsent(token_str, gsf_id)
       THEN /\ CallRetrieve(FALSE, "init")
            /\ UNCHANGED <<tk_self, error>>
       ELSE IF TokenArgsPassed(token_str, gsf_id)
       THEN /\ token' = token_str
            /\ gsfid' = gsf_id
            /\ token_passed' = TRUE
            /\ pc' = "connect"
            /\ UNCHANGED <<tk_call, error>>
       ELSE /\ pc' = "raised"
            /\ error' = "TypeError"
            /\ UNCHANGED <<tk_self, tk_call>>
    /\ UNCHANGED <<tokencachefile, tk_args, requests, written, tk_login, exit_code,
                   r_text, connect_ret>>
    /\ UNCHANGED <<an_vars, dl_vars, gt_vars, rc_vars>>

\* lines 165-168: retrieve_token reads the cache and returns the cached pair
GetCachedToken ==
    /\ pc = "get_cached"
    /\ LET c == get_cached_token(tokencachefile)
       IN  IF c.exc # "none"
           THEN /\ pc' = "raised"
                /\ error' = c.exc
                /\ UNCHANGED <<tk_self, ret>>
           ELSE IF UseCached(c.val, force_new)
           THEN /\ ret' = c.val
                /\ IF caller = "init"
                   THEN /\ token' = Some(c.val[1][1])
                        /\ gsfid' = Some(c.val[1][2])
                        /\ pc' = "connect"
                   ELSE /\ pc' = "relogin"
                        /\ UNCHANGED <<token, gsfid>>
                /\ UNCHANGED <<token_passed, error>>
           ELSE /\ pc' = "request"
                /\ UNCHANGED <<tk_self, ret, error>>
    /\ UNCHANGED <<tokencachefile, tk_args, force_new, caller, pre_file,
                   pre_requests, requests, written, tk_login, exit_code, r_text,
                   connect_ret>>
    /\ UNCHANGED <<an_vars, dl_vars, gt_vars, rc_vars>>

\* DispenserExit without the test for the server error body
DispenserExit_NoServerError(body) ==
    IF body = AuthErrorBody THEN Some(TOKEN_DISPENSER_AUTH_ERROR) ELSE None

\* lines 171-176: the code sys.exit is called with for an answer of the
\* token dispenser, None when it goes on
DispenserExit(body) ==
    IF body = AuthErrorBody THEN Some(TOKEN_DISPENSER_AUTH_ERROR)
    ELSE IF body = ServerErrorBody THEN Some(TOKEN_DISPENSER_SERVER_ERROR)
    ELSE None

\* lines 170-181: the request to the token dispenser and its answer (r_text
\* is r.text while retrieve_token runs, and what it exited on).
\* token_url is set (line 120) only when token_enable is
RequestToken ==
    /\ pc = "request"
    /\ IF ~token_enable
       THEN /\ pc' = "raised"
            /\ error' = "AttributeError"
            /\ UNCHANGED <<requests, token, gsfid, exit_code, r_text>>
       ELSE \E body \in Bodies :
            /\ requests' = requests + 1
            /\ IF DispenserExit(body) # None
               THEN /\ pc' = "exited"
                    /\ exit_code' = DispenserExit(body)
                    /\ r_text' = Some(body)
                    /\ UNCHANGED <<token, gsfid, error>>
               ELSE IF Len(SplitOnSpace(body)) # 2
               THEN /\ pc' = "raised"
                    /\ error' = "ValueError"
                    /\ r_text' = None
                    /\ UNCHANGED <<token, gsfid, exit_code>>
               ELSE /\ token' = Some(SplitOnSpace(body)[1])
                    /\ gsfid' = Some(SplitOnSpace(body)[2])
                    /\ r_text' = Some(body)
                    /\ pc' = "write_cache"
                    /\ UNCHANGED <<error, exit_code>>
    /\ UNCHANGED <<tokencachefile, tk_args, token_passed, tk_call, written, tk_login,
                   connect_ret>>
    /\ UNCHANGED <<an_vars, dl_vars, gt_vars, rc_vars>>

\* fetched_pair that takes the values of --token-str and --gsf-id when they
\* were passed
fetched_pair_FromArgs ==
    IF token_passed THEN <<token_str[1], gsf_id[1]>> ELSE <<token[1], gsfid[1]>>

\* lines 177-182: token, gsfid = r.text.split(" "), kept in self.token and
\* self.gsfid, are the arguments of write_cached_token
fetched_pair == <<token[1], gsfid[1]>>

\* write_cached_token that logs the failure and returns
write_cached_token_swallows(w) == FALSE

\* lines 159-162: the except clause raises IOError again (IOError is OSError,
\* so it takes the failure of os.mkdir as well)
write_cached_token_raises(w) == w # "ok"

\* lines 182-183 with write_cached_token, lines 151-162.  w = "ok": the file
\* is written; "unwritable": mkdir or open fails; "truncated": open has
\* emptied the file and the write fails
WriteCachedToken ==
    /\ pc = "write_cache"
    /\ \E w \in {"ok", "unwritable", "truncated"} :
         /\ tokencachefile' =
                IF w = "ok" THEN File(FormatPair(fetched_pair[1], fetched_pair[2]))
                ELSE IF w = "truncated" THEN File(<<>>) ELSE tokencachefile
         /\ written' =
                IF w = "ok" THEN Some(fetched_pair)
                ELSE IF w = "truncated" THEN None ELSE written
         /\ IF write_cached_token_raises(w)
            THEN /\ pc' = "raised"
                 /\ error' = "IOError"
                 /\ UNCHANGED <<ret, refreshed>>
            ELSE /\ ret' = Some(fetched_pair)
                 /\ refreshed' = IF caller = "connect"
                                 THEN Some(fetched_pair)
                                 ELSE refreshed
                 /\ pc' = IF caller = "init" THEN "connect" ELSE "relogin"
                 /\ UNCHANGED error
    /\ r_text' = None
    /\ UNCHANGED <<tk_args, tk_self, force_new, caller, pre_file, pre_requests,
                   requests, login_results, refreshes, login_creds, exit_code,
                   connect_ret>>
    /\ UNCHANGED <<an_vars, dl_vars, gt_vars, rc_vars>>

(***************************************************************************)
(* connect_to_googleplay_api                                               *)
(***************************************************************************)
\* how api.login may end: it returns, or raises one of these
LoginResults ==
    {"ok", "ValueError", "IndexError", "LoginError", "DecodeError", "ConnectionError"}

\* ExpiredToken with every exception of api.login
ExpiredToken_AnyError == LoginResults \ {"ok"}

\* ExpiredToken without DecodeError: a decode failure would not be retried
ExpiredToken_NoDecodeError == {"ValueError", "IndexError", "LoginError"}

\* line 218: the exceptions after which a new token is retrieved
ExpiredToken == {"ValueError", "IndexError", "LoginError", "DecodeError"}

\* Returned that reports the exception the except clause caught
Returned_CaughtError(ve) ==
    IF ve = "none" THEN <<TRUE, None>> ELSE <<FALSE, Some(ve)>>

\* lines 190 and 222-223: error is None from the start and never assigned,
\* success is True; ve is the exception caught at line 218, "none" without
Returned(ve) == <<TRUE, None>>

\* lines 188-220: the first login
ConnectLogin ==
    /\ pc = "connect"
    /\ IF token_enable /\ ~IsHexInt(gsfid[1])
       THEN \* line 212 raises ValueError before the try
            /\ pc' = "raised"
            /\ error' = "ValueError"
            /\ UNCHANGED <<tk_call, tk_login>>
       ELSE \E r \in LoginResults :
            /\ login_results' = Append(login_results, r)
            /\ login_creds' = IF token_enable THEN Some(<<token[1], gsfid[1]>>) ELSE None
            /\ IF r = "ok"
               THEN /\ pc' = "connected"
                    /\ UNCHANGED <<tk_call, refreshes, error>>
               ELSE IF r \in ExpiredToken
               THEN /\ refreshes' = refreshes + 1
                    /\ CallRetrieve(TRUE, "connect")
                    /\ UNCHANGED error
               ELSE /\ pc' = "raised"
                    /\ error' = r
                    /\ UNCHANGED <<tk_call, refreshes>>
            /\ UNCHANGED refreshed
    /\ connect_ret' = IF pc' = "connected" THEN Some(Returned("none"))
                      ELSE connect_ret
    /\ UNCHANGED <<tokencachefile, tk_args, tk_self, requests, written, exit_code,
                   r_text>>
    /\ UNCHANGED <<an_vars, dl_vars, gt_vars, rc_vars>>

\* line 221: the login with the new token, outside any try
Relogin ==
    /\ pc = "relogin"
    /\ IF ~IsHexInt(gsfid[1])
       THEN /\ pc' = "raised"
            /\ error' = "ValueError"
            /\ UNCHANGED <<login_results, login_creds>>
       ELSE \E r \in LoginResults :
            /\ login_results' = Append(login_results, r)
            /\ login_creds' = Some(<<token[1], gsfid[1]>>)
            /\ IF r = "ok"
               THEN pc' = "connected" /\ UNCHANGED error
               ELSE pc' = "raised" /\ error' = r
    /\ connect_ret' = IF pc' = "connected" THEN Some(Returned(login_results[1]))
                      ELSE connect_ret
    /\ UNCHANGED <<tokencachefile, tk_args, tk_self, tk_call, requests, written,
                   refreshes, refreshed, exit_code, r_text>>
    /\ UNCHANGED <<an_vars, dl_vars, gt_vars, rc_vars>>

CANNOT_LOGIN_GPLAY == 15

\* lines 476-480 of main: success, error = cli.connect_to_googleplay_api()
MainAfterConnect ==
    /\ pc = "connected"
    /\ LET success == connect_ret[1][1]
           err == connect_ret[1][2]
       IN  IF ~success
           THEN /\ exit_code' = Some(CANNOT_LOGIN_GPLAY)
                /\ pc' = "exited"
           ELSE /\ pc' = "main"
                /\ UNCHANGED exit_code
    /\ UNCHANGED <<tokencachefile, tk_args, tk_self, tk_call, requests, written,
                   tk_login, error, r_text, connect_ret>>
    /\ UNCHANGED <<an_vars, dl_vars, gt_vars, rc_vars>>

\* the values of --token-str and --gsf-id
ArgStrings == {<<"a">>, <<"z">>}

InitToken ==
    /\ tokencachefile \in Files
    /\ token_enable \in BOOLEAN
    /\ token_str \in {None} \cup {Some(a) : a \in ArgStrings}
    /\ gsf_id \in {None} \cup {Some(a) : a \in ArgStrings}
    /\ token_passed = FALSE
    /\ token = None
    /\ gsfid = None
    /\ force_new = FALSE
    /\ caller = "none"
    /\ pre_file = NoFile
    /\ pre_requests = 0
    /\ ret = None
    /\ requests = 0
    /\ written = None
    /\ login_results = <<>>
    /\ refreshes = 0
    /\ login_creds = None
    /\ refreshed = None
    /\ error = "none"
    /\ exit_code = None
    /\ r_text = None
    /\ connect_ret = None
    /\ pc = "init"

\* no invocation has been constructed
NotConstructed ==
    /\ token_enable = FALSE
    /\ token_str = None
    /\ gsf_id = None
    /\ token_passed = FALSE
    /\ token = None
    /\ gsfid = None
    /\ force_new = FALSE
    /\ caller = "none"
    /\ pre_file = NoFile
    /\ pre_requests = 0
    /\ ret = None
    /\ requests = 0
    /\ written = None
    /\ login_results = <<>>
    /\ refreshes = 0
    /\ login_creds = None
    /\ refreshed = None
    /\ error = "none"
    /\ exit_code = None
    /\ r_text = None
    /\ connect_ret = None
    /\ pc = "idle"

IdleToken == tokencachefile = NoFile /\ NotConstructed

NextToken ==
    \/ Construct
    \/ GetCachedToken
    \/ RequestToken
    \/ WriteCachedToken
    \/ ConnectLogin
    \/ Relogin
    \/ MainAfterConnect

(***************************************************************************)
(* Two invocations of the tool on one token cache file                     *)
(***************************************************************************)
Invocations == {"p", "q"}

\* the answers of the token dispenser that are a pair of two words
PairBodies ==
    {b \in Strings :
        /\ Len(SplitOnSpace(b)) = 2
        /\ \A k \in 1..2 :
            /\ SplitOnSpace(b)[k] # <<>>
            /\ \A i \in 1..Len(SplitOnSpace(b)[k]) :
                   SplitOnSpace(b)[k][i] \notin Whitespace}

\* the cache file before the two invocations: missing, empty, or a pair
RaceFiles == {NoFile, File(<<>>)} \cup {File(b) : b \in PairBodies}

\* WriteAtStart for a file opened in append mode
WriteAtEnd(old, text) == old \o text

\* line 158 at the close of the with block: each open file has its own
\* position, 0 after open(..., 'w'), and the write replaces the bytes from
\* there; what another writer put beyond stays
WriteAtStart(old, text) == text \o SubSeq(old, Len(text) + 1, Len(old))

\* lines 114-125 and 165-168: __init__ calls retrieve_token(), which reads
\* the cache
RaceGetCached ==
    \E p \in Invocations :
        /\ inv_pc[p] = "get_cached"
        /\ LET c == get_cached_token(tokencachefile)
           IN  IF UseCached(c.val, FALSE)
               THEN /\ inv_pair' = [inv_pair EXCEPT ![p] = c.val]
                    /\ inv_pc' = [inv_pc EXCEPT ![p] = "connect"]
               ELSE /\ inv_pc' = [inv_pc EXCEPT ![p] = "request"]
                    /\ UNCHANGED inv_pair
        /\ UNCHANGED <<tokencachefile, inv_text, last_writer>>
        /\ UNCHANGED <<an_vars, dl_vars, tk_rest, gt_vars>>

\* lines 170-181: the request, answered with a pair
RaceRequest ==
    \E p \in Invocations, body \in PairBodies :
        /\ inv_pc[p] = "request"
        /\ inv_text' = [inv_text EXCEPT ![p] = Some(body)]
        /\ inv_pair' = [inv_pair EXCEPT ![p] =
               Some(<<SplitOnSpace(body)[1], SplitOnSpace(body)[2]>>)]
        /\ inv_pc' = [inv_pc EXCEPT ![p] = "open"]
        /\ UNCHANGED <<tokencachefile, last_writer>>
        /\ UNCHANGED <<an_vars, dl_vars, tk_rest, gt_vars>>

\* lines 153-157: open(self.tokencachefile, 'w') empties the file, or fails
\* and write_cached_token raises
RaceOpen ==
    \E p \in Invocations, opened \in BOOLEAN :
        /\ inv_pc[p] = "open"
        /\ IF opened
           THEN /\ tokencachefile' = File(<<>>)
                /\ inv_pc' = [inv_pc EXCEPT ![p] = "write"]
           ELSE /\ inv_pc' = [inv_pc EXCEPT ![p] = "raised"]
                /\ UNCHANGED tokencachefile
        /\ UNCHANGED <<inv_text, inv_pair, last_writer>>
        /\ UNCHANGED <<an_vars, dl_vars, tk_rest, gt_vars>>

\* lines 158 and 183: the text is written when the file is closed, and
\* retrieve_token returns the pair it requested
RaceWrite ==
    \E p \in Invocations :
        /\ inv_pc[p] = "write"
        /\ tokencachefile' =
               File(WriteAtStart(tokencachefile.text,
                                 FormatPair(inv_pair[p][1][1], inv_pair[p][1][2])))
        /\ last_writer' = Some(p)
        /\ inv_pc' = [inv_pc EXCEPT ![p] = "connect"]
        /\ UNCHANGED <<inv_text, inv_pair>>
        /\ UNCHANGED <<an_vars, dl_vars, tk_rest, gt_vars>>

InitRace ==
    /\ tokencachefile \in RaceFiles
    /\ inv_pc = [p \in Invocations |-> "get_cached"]
    /\ inv_text = [p \in Invocations |-> None]
    /\ inv_pair = [p \in Invocations |-> None]
    /\ last_writer = None

IdleRace ==
    /\ inv_pc = [p \in Invocations |-> "idle"]
    /\ inv_text = [p \in Invocations |-> None]
    /\ inv_pair = [p \in Invocations |-> None]
    /\ last_writer = None

NextRace ==
    \/ RaceGetCached
    \/ RaceRequest
    \/ RaceOpen
    \/ RaceWrite

(***************************************************************************)
(* Properties of analyse_local_apks                                        *)
(***************************************************************************)
\* the i-th local APK is in the update list
InUpdateList(i) ==
    \E k \in 1..Len(list_apks_to_update) : list_apks_to_update[k][2] = i

VersionOf(i) == list_of_apks[i].version_code

\* C1 as stated: a returned update list holds the i-th package iff its local
\* version parses as a positive integer, the remote version is not 0 and
\* the local version is less than the remote one.
C1_PositiveLocalVersion ==
    an_pc = "returned" =>
        \A i \in 1..Len(list_of_apks) :
            InUpdateList(i) <=>
                /\ IsPyInt(VersionOf(i))
                /\ PyInt(VersionOf(i)) > 0
                /\ details[i] # 0
                /\ PyInt(VersionOf(i)) < details[i]

\* C1 amended: the i-th package is in the returned update list, with both
\* versions as integers, iff its local version is not empty (it then parses
\* as an integer of any sign), the remote version is not 0 and the local
\* version is less than the remote one; analyse_local_apks raises instead of
\* returning iff some non-empty local version does not parse.
C1_Candidates ==
    /\ an_pc = "returned" =>
         /\ \A i \in 1..Len(list_of_apks) :
              InUpdateList(i) <=>
                  /\ VersionOf(i) # <<>>
                  /\ IsPyInt(VersionOf(i))
                  /\ details[i] # 0
                  /\ PyInt(VersionOf(i)) < details[i]
         /\ \A k \in 1..Len(list_apks_to_update) :
              LET e == list_apks_to_update[k]
              IN  e = <<list_of_apks[e[2]].packagename, e[2],
                        PyInt(VersionOf(e[2])), details[e[2]]>>
    /\ an_pc = "raised" <=>
         /\ an_pc # "start"
         /\ \E i \in 1..Len(list_of_apks) :
              VersionOf(i) # <<>> /\ ~IsPyInt(VersionOf(i))

\* a package with local version 0 or below is in the update list, next to
\* one that is not
C1_Witness ==
    /\ an_pc = "returned"
    /\ \E i, j \in 1..Len(list_of_apks) :
         /\ InUpdateList(i)
         /\ PyInt(VersionOf(i)) <= 0
         /\ ~InUpdateList(j)

(***************************************************************************)
(* Properties of download_packages                                         *)
(***************************************************************************)
\* the requests whose download succeeded and whose write then failed
WriteFailed ==
    {pkg_todownload[i][1] : i \in {j \in 1..Len(outcomes) :
        outcomes[j] \in {<<"ok", "apk">>, <<"ok", "obb">>}}}

\* C2: when download_packages has returned, the success, failed and
\* unavailable sets are pairwise disjoint and every requested identifier is
\* in one of them.
C2_ExactlyOneCategory ==
    dl_pc = "returned" =>
        /\ success_items \cap failed_items = {}
        /\ success_items \cap unavail_items = {}
        /\ failed_items \cap unavail_items = {}
        /\ to_download_items \subseteq
               (success_items \cup failed_items \cup unavail_items)

\* C3: when download_packages has returned, an item whose download
\* succeeded and whose write failed is in the failed set, not in the success
\* set, and not in a success log written by this run.
C3_WriteFailureIsFailed ==
    dl_pc = "returned" =>
        \A p \in WriteFailed :
            /\ p \in failed_items
            /\ p \notin success_items
            /\ logging_enable => p \notin success_logfile

\* C4: the returned set is the requested identifiers that are neither failed
\* nor unavailable.
C4_ReturnsNeitherFailedNorUnavailable ==
    dl_pc = "returned" =>
        downloaded_packages = to_download_items \ (failed_items \cup unavail_items)

\* C6: once the loop has started no error of an item aborts
\* download_packages: it does not raise, and when it has returned every
\* item was attempted.
C6_NoItemErrorAborts ==
    /\ dl_pc # "raised"
    /\ dl_pc = "returned" => Len(outcomes) = Len(pkg_todownload)

\* C7: with logging enabled, when download_packages has returned each log
\* file holds exactly the identifiers of this run's category.
C7_LogsHoldThisRun ==
    (dl_pc = "returned" /\ logging_enable) =>
        /\ success_logfile = success_items
        /\ failed_logfile = failed_items
        /\ unavail_logfile = unavail_items

\* the requests that ended as failed: api.download raised something other
\* than IndexError, or a write raised IOError
ClassifiedFailed ==
    {pkg_todownload[i][1] : i \in {j \in 1..Len(outcomes) :
        outcomes[j] \in {<<"Exception">>, <<"ok", "apk">>, <<"ok", "obb">>}}}

\* C14: the set download_packages returns is the set of requested
\* identifiers minus the identifiers classified failed
C14_ReturnsRequestedMinusFailed ==
    dl_pc = "returned" =>
        downloaded_packages = to_download_items \ ClassifiedFailed

\* one item unavailable, one failed: the unavailable one is returned
C14_Witness ==
    /\ dl_pc = "returned"
    /\ \E i, j \in 1..Len(outcomes) :
        /\ outcomes[i] = <<"IndexError">>
        /\ outcomes[j] = <<"ok", "apk">>
        /\ pkg_todownload[i][1] # pkg_todownload[j][1]
        /\ pkg_todownload[i][1] \in downloaded_packages
        /\ pkg_todownload[j][1] \notin downloaded_packages

\* the error lines of the items processed so far, in the order of the items
ItemErrors ==
    LET Failing(e) == outcomes[e[2]] # <<"ok", "ok">>
    IN  SelectSeq([i \in 1..Len(outcomes) |-> <<"error", i>>], Failing)

\* C20: errors of items are reported only in one report emitted after the
\* last item and before download_packages returns; nothing is emitted
\* between two items.
C20_OnlyConsolidatedReport ==
    /\ dl_pc = "loop" => emitted = <<>>
    /\ dl_pc = "returned" =>
        /\ Len(emitted) <= 1
        /\ \A k \in 1..Len(emitted) : emitted[k][1] = "report"

\* C20 amended: the error of an item is emitted when the item is processed,
\* and after the last item, before download_packages returns, exactly one
\* more report is emitted iff some item failed or was unavailable; it lists
\* the failed items followed by the unavailable ones.
C20_ItemErrorsThenOneReport ==
    /\ dl_pc \in {"loop", "raised"} => emitted = ItemErrors
    /\ dl_pc = "returned" =>
        emitted = ItemErrors \o
            (IF failed_downloads \o unavail_downloads = <<>> THEN <<>>
             ELSE << <<"report", failed_downloads \o unavail_downloads>> >>)

\* a failed item, a downloaded one and an unavailable one: two error lines
\* and the report
C20_Witness ==
    /\ dl_pc = "returned"
    /\ Len(outcomes) = 3
    /\ outcomes[1] = <<"Exception">>
    /\ outcomes[2] = <<"ok", "ok">>
    /\ outcomes[3] = <<"IndexError">>
    /\ Len(emitted) = 3
    /\ emitted[3][1] = "report"

(***************************************************************************)
(* Properties of the token cache and of connect_to_googleplay_api          *)
(***************************************************************************)
logins == Len(login_results)

first_error == IF login_results = <<>> THEN "none" ELSE login_results[1]

Terminated == pc \in {"connected", "main", "raised", "exited"}

\* the causes of a login failure that mean an expired token
KnownCauses == {"ValueError", "IndexError", "LoginError", "DecodeError"}

\* C5 as stated: after a first login failure with a known cause in a
\* token session, connect ends with exactly one forced refresh and exactly
\* two logins, the second with the new token.
C5_AlwaysOneRetry ==
    (token_enable /\ Terminated /\ first_error \in KnownCauses) =>
        /\ refreshes = 1
        /\ logins = 2
        /\ login_creds = refreshed

\* C5 amended: a first login failure with a known cause triggers exactly
\* one forced retrieve_token; if that call returns a pair whose session id
\* int(.., 16) accepts, exactly one login with the new pair follows, and
\* otherwise none; a failure of the second login propagates; there are never
\* more than two logins or more than one forced refresh.
C5_RefreshOnceRetryOnce ==
    /\ logins <= 2
    /\ refreshes <= 1
    /\ first_error \in KnownCauses =>
         /\ refreshes = 1
         /\ force_new
         /\ caller = "connect"
    /\ (Terminated /\ first_error \in KnownCauses) =>
         (logins = 2 <=> (refreshed # None /\ IsHexInt(refreshed[1][2])))
    /\ logins = 2 =>
         /\ first_error \in KnownCauses
         /\ refreshes = 1
         /\ refreshed # None
         /\ login_creds = refreshed
         /\ pc \in {"connected", "main", "raised"}
         /\ login_results[2] # "ok" => (pc = "raised" /\ error = login_results[2])
    /\ refreshed # None => refreshed = Some(<<token[1], gsfid[1]>>)

\* the second login, with the new token, has failed and the failure has
\* propagated
C5_Witness ==
    /\ logins = 2
    /\ login_results[1] = "DecodeError"
    /\ login_results[2] = "DecodeError"
    /\ pc = "raised"
    /\ refreshes = 1

\* the first line of the file holds a token and a session id
HoldsPair(file) ==
    file.exists /\ Len(SplitWhitespace(ReadLine(file.text))) = 2

PairOf(file) ==
    LET parts == SplitWhitespace(ReadLine(file.text))
    IN  Some(<<parts[1], parts[2]>>)

\* not empty and without whitespace
IsWord(s) == s # <<>> /\ \A i \in 1..Len(s) : s[i] \notin Whitespace

\* C8: when retrieve_token has returned: if the cache held a pair and
\* force_new was false it returned that pair, made no request and left the
\* file as it was; otherwise it made one request and the file holds exactly
\* the pair it returned (which is also what a reader of the file gets when
\* the pair is two words).  It reaches the request only when force_new is set
\* or the cache holds no pair.
C8_Retrieve ==
    /\ ret # None =>
         IF HoldsPair(pre_file) /\ ~force_new
         THEN /\ ret = PairOf(pre_file)
              /\ requests = pre_requests
              /\ tokencachefile = pre_file
         ELSE /\ requests = pre_requests + 1
              /\ tokencachefile = File(ret[1][1] \o <<" ">> \o ret[1][2])
              /\ (IsWord(ret[1][1]) /\ IsWord(ret[1][2])) =>
                     PairOf(tokencachefile) = ret
    /\ pc \in {"request", "write_cache"} => (force_new \/ ~HoldsPair(pre_file))
    /\ pc = "write_cache" => requests = pre_requests + 1

\* a forced retrieve_token has returned a new pair although the cache held
\* one
C8_Witness ==
    /\ ret # None
    /\ force_new
    /\ HoldsPair(pre_file)
    /\ tokencachefile # pre_file
    /\ pc = "relogin"

\* C9 as stated: after write_cached_token(t, g), for every t and g,
\* get_cached_token returns (t, g).
C9_RoundTripAnyPair ==
    written # None =>
        get_cached_token(tokencachefile) = [exc |-> "none", val |-> written]

\* C9 amended: after write_cached_token(t, g) with t and g not empty and
\* without whitespace, get_cached_token returns (t, g).
C9_RoundTrip ==
    (written # None /\ IsWord(written[1][1]) /\ IsWord(written[1][2])) =>
        get_cached_token(tokencachefile) = [exc |-> "none", val |-> written]

\* a pair of two words has been written to the cache file
C9_Witness ==
    /\ written # None
    /\ IsWord(written[1][1])
    /\ IsWord(written[1][2])
    /\ tokencachefile.exists
    /\ pc = "connect"

\* C10: the read of the cache in retrieve_token never raises, and for a
\* file that is missing, empty or without a pair on its first line
\* retrieve_token goes on to the request for a new pair.
C10_ReadNeverRaises ==
    [][pc = "get_cached" =>
          /\ pc' # "raised"
          /\ ~HoldsPair(tokencachefile) => pc' = "request"]_vars

\* retrieve_token is about to request a new pair after reading a cache file
\* that holds a single token
C10_Witness ==
    /\ pc = "request"
    /\ ~force_new
    /\ tokencachefile = File(<<"a">>)

\* C11: when the token dispenser answers with the auth error body or the
\* server error body, retrieve_token exits the process with a non-zero code,
\* TOKEN_DISPENSER_AUTH_ERROR for the first and the different
\* TOKEN_DISPENSER_SERVER_ERROR for the second, after that one request, with
\* the cache file and self.token, self.gsfid as they were; nothing follows
\* the exit.
C11_DispenserErrorExits ==
    [][/\ (pc = "request" /\ r_text' \in {Some(AuthErrorBody), Some(ServerErrorBody)}) =>
            /\ pc' = "exited"
            /\ exit_code' = IF r_text' = Some(AuthErrorBody) THEN Some(5) ELSE Some(6)
            /\ exit_code'[1] # 0
            /\ requests' = requests + 1
            /\ UNCHANGED <<tokencachefile, written, token, gsfid>>
       /\ pc = "exited" => UNCHANGED tk_vars]_vars

\* retrieve_token, forced by a failed login, has exited on the server error
\* body
C11_Witness ==
    /\ pc = "exited"
    /\ r_text = Some(ServerErrorBody)
    /\ exit_code = Some(TOKEN_DISPENSER_SERVER_ERROR)
    /\ force_new
    /\ requests = 2

\* the Gate has acted on the list returned by analyse_local_apks
GateDone == gt_pc \in {"downloading", "returned", "raised", "exited"}

\* download_packages was called by the Gate
DownloadStarted == dl_pc # "idle"

\* C12: for a non-empty candidate list the Gate starts the batch download
\* if and only if yes is set or the one line read is exactly "y"; with yes
\* set no input is read, and for any other input download_packages is not
\* called and no item is fetched
C12_ConfirmationGate ==
    (GateDone /\ list_apks_to_update # <<>>) =>
        /\ DownloadStarted <=> (yes \/ return_value = Some(<<"y">>))
        /\ yes => (inputs_read = 0 /\ return_value = None)
        /\ ~yes => inputs_read = 1
        /\ DownloadStarted => pkg_todownload = ToDownload(list_apks_to_update)
        /\ ~DownloadStarted => (outcomes = <<>> /\ pkg_todownload = <<>>
                                /\ downloaded_packages = {})
        /\ update_exit = None

\* the answer "Y" was read and nothing was downloaded
C12_Witness ==
    /\ gt_pc = "returned"
    /\ ~yes
    /\ return_value = Some(<<"Y">>)
    /\ Len(list_apks_to_update) = 2
    /\ ~DownloadStarted

\* C16: when the candidate list given to the Gate is empty, it prints that
\* everything is up to date, calls no download, reads no input, and the
\* command exits with ERRORS.OK
C16_EmptyListExitsOk ==
    (GateDone /\ list_apks_to_update = <<>>) =>
        /\ gt_pc = "exited"
        /\ update_exit = Some(ERRORS_OK)
        /\ printed = <<"Everything is up to date !">>
        /\ ~DownloadStarted
        /\ outcomes = <<>>
        /\ inputs_read = 0
        /\ return_value = None

\* two local packages, none older than the store, without -y
C16_Witness ==
    /\ gt_pc = "exited"
    /\ update_exit = Some(0)
    /\ Len(list_of_apks) = 2
    /\ list_apks_to_update = <<>>
    /\ ~yes
    /\ inputs_read = 0

\* C13: a package whose store version is 0 is never in the returned update
\* list, whatever its local version (empty, zero, negative or positive)
C13_RemoteZeroNeverCandidate ==
    an_pc = "returned" =>
        /\ \A i \in 1..Len(list_of_apks) : details[i] = 0 => ~InUpdateList(i)
        /\ \A k \in 1..Len(list_apks_to_update) : list_apks_to_update[k][4] # 0

\* a negative local version, less than the store version 0, and an empty one
C13_Witness ==
    /\ an_pc = "returned"
    /\ \E i, j \in 1..Len(list_of_apks) :
        /\ details[i] = 0 /\ VersionOf(i) # <<>> /\ PyInt(VersionOf(i)) < 0
        /\ details[j] = 0 /\ VersionOf(j) = <<>>

\* C17: the returned update list is a subsequence of the input: its entries
\* come from local packages at strictly increasing positions and carry their
\* package name, and an input without a repeated package name gives an
\* update list without a repeated package name
C17_Subsequence ==
    an_pc = "returned" =>
        /\ \A k \in 1..Len(list_apks_to_update) :
            /\ list_apks_to_update[k][2] \in 1..Len(list_of_apks)
            /\ list_apks_to_update[k][1] =
                   list_of_apks[list_apks_to_update[k][2]].packagename
        /\ \A k, l \in 1..Len(list_apks_to_update) :
            k < l => list_apks_to_update[k][2] < list_apks_to_update[l][2]
        /\ (\A i, j \in 1..Len(list_of_apks) :
                i # j => list_of_apks[i].packagename # list_of_apks[j].packagename)
           => \A k, l \in 1..Len(list_apks_to_update) :
                k # l => list_apks_to_update[k][1] # list_apks_to_update[l][1]

\* two different packages, both to update
C17_Witness ==
    /\ an_pc = "returned"
    /\ Len(list_apks_to_update) = 2
    /\ list_apks_to_update[1][1] # list_apks_to_update[2][1]

\* exactly one of --token-str and --gsf-id is given
OneOverride == (token_str = None) # (gsf_id = None)

\* C15: in every configuration, giving only one of the two overrides makes
\* __init__ raise, before any request to the token dispenser and any login.
C15_OneOverrideAlwaysFatal ==
    (pc # "init" /\ OneOverride) =>
        /\ pc = "raised"
        /\ error = "TypeError"
        /\ requests = 0
        /\ logins = 0

\* C15 amended: with token authentication enabled, giving only one of the
\* two overrides makes __init__ raise TypeError, before any request to the
\* token dispenser, any read or write of the cache and any login.
C15_OneOverrideFatalWithToken ==
    (pc # "init" /\ token_enable /\ OneOverride) =>
        /\ pc = "raised"
        /\ error = "TypeError"
        /\ requests = 0
        /\ logins = 0
        /\ written = None
        /\ token = None /\ gsfid = None
        /\ ~token_passed
        /\ caller = "none"

\* --token-str without --gsf-id
C15_Witness ==
    /\ pc = "raised"
    /\ error = "TypeError"
    /\ token_enable
    /\ token_str # None
    /\ gsf_id = None
    /\ requests = 0

\* C18: when write_cached_token does not leave the new pair in the cache
\* file, retrieve_token raises IOError and returns nothing; it returns the
\* new pair only with the pair in the file.
C18_WriteFailureRaises ==
    [][pc = "write_cache" =>
          /\ tokencachefile' # File(FormatPair(token[1], gsfid[1])) =>
                /\ pc' = "raised"
                /\ error' = "IOError"
                /\ UNCHANGED <<ret, refreshed, login_results>>
          /\ pc' # "raised" =>
                /\ ret' = Some(<<token[1], gsfid[1]>>)
                /\ tokencachefile' = File(FormatPair(token[1], gsfid[1]))]_vars

\* the first token was requested and its write failed
C18_Witness ==
    /\ pc = "raised"
    /\ error = "IOError"
    /\ requests = 1
    /\ token # None
    /\ ret = None
    /\ tokencachefile = File(<<>>)

\* C19: only a first login failure with a known cause leads to a token
\* refresh and a second login; a first login failure with another cause is
\* raised at once, with no request to the token dispenser, no cache write
\* and no second login.
C19_OnlyKnownCausesRefresh ==
    [][/\ (pc = "connect" /\ login_results' # login_results
           /\ first_error' \notin KnownCauses \cup {"ok"}) =>
              /\ pc' = "raised"
              /\ error' = first_error'
              /\ UNCHANGED <<requests, written, tokencachefile, refreshes,
                             force_new, caller, token, gsfid>>
       /\ refreshes' # refreshes =>
              /\ pc = "connect"
              /\ login_results = <<>>
              /\ first_error' \in KnownCauses
       /\ first_error' \notin KnownCauses \cup {"none", "ok"} =>
              /\ pc' = "raised"
              /\ logins' = 1
              /\ refreshes' = 0]_vars

\* the token came from the dispenser, the login failed on the connection
C19_Witness ==
    /\ pc = "raised"
    /\ login_results = <<"ConnectionError">>
    /\ error = "ConnectionError"
    /\ token_enable
    /\ requests = 1
    /\ refreshes = 0

\* C22: a pair passed with --token-str and --gsf-id is never written to the
\* cache file: the file changes only in write_cached_token, after a request
\* to the token dispenser, and every pair written is the body r.text of that
\* request (an open that failed after truncation leaves an empty file)
C22_OnlyFetchedPairWritten ==
    [][/\ tokencachefile' # tokencachefile =>
              /\ pc = "write_cache"
              /\ r_text # None
              /\ requests > 0
              /\ tokencachefile' \in {File(r_text[1]), File(<<>>)}
       /\ (written' # written /\ written' # None) =>
              /\ pc = "write_cache"
              /\ r_text # None
              /\ written' = Some(<<SplitOnSpace(r_text[1])[1],
                                   SplitOnSpace(r_text[1])[2]>>)
              /\ tokencachefile' = File(r_text[1])
       /\ requests' = 0 => (tokencachefile' = tokencachefile /\ written' = None)]_vars

\* the login with the passed pair failed, the refresh wrote another pair and
\* the second login succeeded
C22_Witness ==
    /\ token_passed
    /\ pc = "connected"
    /\ refreshes = 1
    /\ written # None
    /\ written # Some(<<token_str[1], gsf_id[1]>>)
    /\ tokencachefile = File(FormatPair(token[1], gsfid[1]))

\* the result of the last call of api.login
last_login == IF login_results = <<>> THEN "none" ELSE login_results[logins]

\* C23: connect_to_googleplay_api returns only (True, None), and only after
\* a login that succeeded; main never exits with CANNOT_LOGIN_GPLAY; a login
\* failure that is not recovered leaves connect by an exception or an exit
C23_ConnectNeverReturnsFailure ==
    /\ connect_ret # None =>
          /\ connect_ret = Some(<<TRUE, None>>)
          /\ last_login = "ok"
    /\ (connect_ret # None) <=> (pc \in {"connected", "main"})
    /\ exit_code # Some(CANNOT_LOGIN_GPLAY)
    /\ (logins = 2 /\ last_login # "ok") => (pc = "raised" /\ error = last_login)
    /\ (logins = 1 /\ last_login \notin KnownCauses \cup {"ok"}) =>
          (pc = "raised" /\ error = last_login)
    /\ (logins = 1 /\ last_login \in KnownCauses /\ pc \notin {"raised", "exited"}) =>
          pc \in {"get_cached", "request", "write_cache", "relogin"}

\* a rejected login, a refresh and a second login: main goes on
C23_Witness ==
    /\ pc = "main"
    /\ login_results = <<"LoginError", "ok">>
    /\ refreshes = 1
    /\ connect_ret = Some(<<TRUE, None>>)
    /\ exit_code = None

(***************************************************************************)
(* Properties of two invocations on one cache file                         *)
(***************************************************************************)
\* the invocation requested a pair from the token dispenser
Fetched(p) == inv_text[p] # None

\* retrieve_token has returned in the invocation
RaceDone(p) == inv_pc[p] = "connect"

IsPrefix(a, b) == Len(a) <= Len(b) /\ SubSeq(b, 1, Len(a)) = a

\* C21: the cache file is read and written without a lock.  An invocation
\* that requested a pair keeps that pair in memory whatever the file holds;
\* when no write is under way, the file starts with the text of the last
\* writer, and when both invocations have requested a pair and returned it
\* holds only that text unless the other writer's text was longer.  The
\* witness is the interleaving in which both requested, both returned, and
\* the first writer goes on with a pair that differs from the file.
C21_LastWriterWins ==
    /\ \A p \in Invocations :
          Fetched(p) =>
              inv_pair[p] = Some(<<SplitOnSpace(inv_text[p][1])[1],
                                   SplitOnSpace(inv_text[p][1])[2]>>)
    /\ (last_writer # None /\ \A p \in Invocations : inv_pc[p] # "write") =>
          /\ tokencachefile.exists
          /\ IsPrefix(inv_text[last_writer[1]][1], tokencachefile.text)
    /\ \A p, q \in Invocations :
          (/\ p # q
           /\ RaceDone(p) /\ RaceDone(q)
           /\ Fetched(p) /\ Fetched(q)
           /\ last_writer = Some(q)
           /\ Len(inv_text[q][1]) >= Len(inv_text[p][1])) =>
              tokencachefile = File(inv_text[q][1])

\* both invocations missed the cache, requested different pairs and
\* returned; the file holds the pair of q, p goes on with another one
C21_Witness ==
    /\ RaceDone("p") /\ RaceDone("q")
    /\ Fetched("p") /\ Fetched("q")
    /\ last_writer = Some("q")
    /\ tokencachefile = File(inv_text["q"][1])
    /\ get_cached_token(tokencachefile).val = inv_pair["q"]
    /\ inv_pair["p"] # inv_pair["q"]
    /\ inv_pair["p"] # get_cached_token(tokencachefile).val

(***************************************************************************)
(* Specifications                                                          *)
(***************************************************************************)
InitAnalyseOnly ==
    InitAnalyse /\ IdleDownload /\ IdleToken /\ IdleUpdate /\ IdleRace

InitDownloadOnly ==
    IdleAnalyse /\ InitDownload /\ IdleToken /\ IdleUpdate /\ IdleRace

InitTokenOnly ==
    IdleAnalyse /\ IdleDownload /\ InitToken /\ IdleUpdate /\ IdleRace

\* line 233: prepare_analyse_apks goes on only for a folder that holds APKs
InitUpdateOnly ==
    /\ InitAnalyse /\ list_of_apks # <<>> /\ DownloadNotCalled
    /\ IdleToken /\ InitUpdate /\ IdleRace

InitRaceOnly ==
    IdleAnalyse /\ IdleDownload /\ NotConstructed /\ IdleUpdate /\ InitRace

SpecAnalyse == InitAnalyseOnly /\ [][NextAnalyse]_vars

SpecDownload == InitDownloadOnly /\ [][NextDownload]_vars

SpecToken == InitTokenOnly /\ [][NextToken]_vars

SpecUpdate == InitUpdateOnly /\ [][NextUpdate]_vars

SpecRace == InitRaceOnly /\ [][NextRace]_vars

====
